---- MODULE Spec2Model ----
(***************************************************************************)
(* paper-reader: one run of paper_reader (src/app.py), the pipeline that   *)
(* loads a PDF, crops formula and figure/table regions, asks an inference  *)
(* service for one summary and for one explanation per region, and writes  *)
(* the two output documents.                                               *)
(*                                                                         *)
(* Every call to an external collaborator (arXiv, pdf2image, layoutparser, *)
(* pdfminer, the Gemini file and generation API, the local chat endpoint,  *)
(* the output directory) is one step that either returns or raises.  An    *)
(* exception is never caught in app.py, so it ends the run.                *)
(***************************************************************************)
EXTENDS Integers, Sequences, FiniteSets, TLC

\* Largest number of blocks a layout model reports on the page.
MaxBlocks == 2

VARIABLES
    pdf_file,               \* TRUE: a PDF was uploaded; FALSE: download by URL
    processing_mode,        \* paper_reader argument
    processing_mode_body,   \* paper_reader argument
    pages,                  \* the document: per page, what each layout model detects
    pc,                     \* position of the run in paper_reader
    error,                  \* "" or the exception that ended the run
    collab_ok,              \* no collaborator has raised or returned empty content
    workspace,              \* save_dir_name: crop path -> content of the file
    formula_data,           \* paper_reader local
    figures_and_tables_data,\* paper_reader local
    pdf_text,               \* paper_reader local: "UNBOUND" or "TEXT"
    images,                 \* paper_reader local: "UNBOUND" or "PAGES"
    paper_summary_ochiai,   \* paper_reader local: "UNBOUND", "" or "SUMMARY"
    explaination_text,      \* paper_reader local: sequence of report parts
    gallery_data,           \* paper_reader local
    idx,                    \* position of the running for loop (1-based)
    sample_file,            \* local of the running generate_* function
    sample_files,           \* generate_paper_summary_ochiai_text_formula local
    file_names,             \* generate_paper_summary_ochiai_text_formula local
    response,               \* local of the running generate_* function
    live,                   \* remote service: handles uploaded and not deleted
    uploaded,               \* every handle this run has uploaded
    nextHandle,             \* remote service: name of the next uploaded file
    request,                \* the summary generation request that was issued
    output,                 \* output/: the documents written
    returned,               \* paper_reader has returned its five results
    log,                    \* the calls made so far, in order
    bud,                    \* the Content Budgeter applied to one text
    runs,                   \* two paper_reader calls running on one host
    host                    \* what the two calls share: file system and service

vars == <<pdf_file, processing_mode, processing_mode_body, pages, pc, error,
          collab_ok, workspace, formula_data, figures_and_tables_data,
          pdf_text, images, paper_summary_ochiai, explaination_text,
          gallery_data, idx, sample_file, sample_files, file_names, response,
          live, uploaded, nextHandle, request, output, returned, log,
          bud, runs, host>>

----------------------------------------------------------------------------
\* Inputs

\* The values paper_reader's docstring and the Radio of the form name.
ProcessingModes == {"all", "text_formula", "text_only", "formula_only"}

ProcessingModesBody == {"body_text-gemini", "body_text-local", "body_image-gemini"}

\* Block types the formula model (MFD) reports.
MFDLabels == {"Equation"}

\* Block types the figure/table model (PubLayNet) reports
\* (Title and List are treated as Text is: skipped).
PubLayNetLabels == {"Text", "Table", "Figure"}

SeqsUpTo(S, n) == UNION {[1..k -> S] : k \in 0..n}

\* One page: the layout each model detects on it.
PageLayouts == [mfd : SeqsUpTo(MFDLabels, MaxBlocks),
                pub : SeqsUpTo(PubLayNetLabels, MaxBlocks)]

\* One-page documents.
Documents == {<<p>> : p \in PageLayouts}

----------------------------------------------------------------------------
\* Helpers

NoCrop == <<"none", -1, -1>>

NoFile == [bound |-> FALSE, name |-> -1, by |-> "", state |-> ""]

NoRequest == [issued |-> FALSE, strategy |-> "", text |-> FALSE, attachments |-> <<>>]

Ev(e, k, n) == [ev |-> e, kind |-> k, n |-> n]

Logged(e) == \E t \in 1..Len(log) : log[t].ev = e

Count(e) == Cardinality({t \in 1..Len(log) : log[t].ev = e})

\* Position of the first / last call e in the log (0: never made).
First(e) == IF Logged(e) THEN CHOOSE t \in 1..Len(log) :
                 log[t].ev = e /\ \A u \in 1..(t-1) : log[u].ev # e
            ELSE 0

Last(e) == IF Logged(e) THEN CHOOSE t \in 1..Len(log) :
                 log[t].ev = e /\ \A u \in (t+1)..Len(log) : log[u].ev # e
           ELSE 0

\* processing_mode_body.split('-')
processing_body == IF processing_mode_body = "body_image-gemini" THEN "body_image"
                   ELSE "body_text"

\* Mutant: the backend is the remote one whatever the caller selected.
llm_client_gemini == "gemini"

llm_client == IF processing_mode_body = "body_text-local" THEN "local" ELSE "gemini"

\* The crops one extraction makes of page i (0-based) with layout `layout`:
\* block j (0-based) is kept when its type is in `keep`, written to
\* page_<i>_block_<j>.jpg and read back as base64.
PageCrops(layout, i, keep, profile) ==
    SelectSeq([j \in 1..Len(layout) |->
                  [path |-> <<i, j - 1>>,
                   base64 |-> <<profile, i, j - 1>>,
                   type |-> layout[j]]],
              LAMBDA a : a.type \in keep)

RECURSIVE Crops(_, _, _, _)
Crops(doc, n, keep, profile) ==
    IF n = 0 THEN <<>>
    ELSE Crops(doc, n - 1, keep, profile)
         \o PageCrops(IF profile = "MFD" THEN doc[n].mfd ELSE doc[n].pub,
                      n - 1, keep, profile)

\* cv2.imwrite of every crop of `data` into the workspace.
Written(ws, data) ==
    [p \in DOMAIN ws |->
        IF \E k \in 1..Len(data) : data[k].path = p
        THEN (CHOOSE a \in {data[k] : k \in 1..Len(data)} : a.path = p).base64
        ELSE ws[p]]

Paths == {<<0, j>> : j \in 0..(MaxBlocks - 1)}

----------------------------------------------------------------------------
\* The Content Budgeter at rest (no text submitted to it).
BudIdle == [pc |-> "idle", text |-> <<>>, strategy |-> "", out1 |-> <<>>, out2 |-> <<>>]

\* No concurrent call is running.
RunsIdle == <<>>

HostIdle == [nextDir |-> 0, nextName |-> 0, live |-> {}, crops |-> {},
             documents |-> {}, attached |-> {}, released |-> {}]

\* The state at the entry of paper_reader(arxiv_url, pdf_file, processing_mode,
\* processing_mode_body) on the document doc.
RunStart(f, mode, body, doc) ==
    /\ pdf_file = f
    /\ processing_mode = mode
    /\ processing_mode_body = body
    /\ pages = doc
    /\ pc = "start"
    /\ error = ""
    /\ collab_ok = TRUE
    /\ workspace = [p \in Paths |-> NoCrop]
    /\ formula_data = <<>>
    /\ figures_and_tables_data = <<>>
    /\ pdf_text = "UNBOUND"
    /\ images = "UNBOUND"
    /\ paper_summary_ochiai = "UNBOUND"
    /\ explaination_text = <<>>
    /\ gallery_data = <<>>
    /\ idx = 0
    /\ sample_file = NoFile
    /\ sample_files = <<>>
    /\ file_names = <<>>
    /\ response = "UNBOUND"
    /\ live = {}
    /\ uploaded = {}
    /\ nextHandle = 0
    /\ request = NoRequest
    /\ output = {}
    /\ returned = FALSE
    /\ log = <<>>

\* No call of paper_reader is being followed step by step.
RunIdle == RunStart(TRUE, "text_only", "body_text-local", <<[mfd |-> <<>>, pub |-> <<>>]>>)

Init ==
    /\ \E f \in BOOLEAN, mode \in ProcessingModes, body \in ProcessingModesBody,
          doc \in Documents : RunStart(f, mode, body, doc)
    /\ bud = BudIdle
    /\ runs = RunsIdle
    /\ host = HostIdle


----------------------------------------------------------------------------
\* Variable groups

otherVars == <<bud, runs, host>>

inputVars == <<pdf_file, processing_mode, processing_mode_body, pages>>

cropVars == <<workspace, formula_data, figures_and_tables_data>>

bodyVars == <<pdf_text, images>>

summaryVars == <<sample_files, file_names, request, paper_summary_ochiai>>

reportVars == <<explaination_text, gallery_data>>

remoteVars == <<live, uploaded, nextHandle>>

endVars == <<output, returned, error>>

----------------------------------------------------------------------------
\* paper_reader: load and region extraction

\* if pdf_file: ... else: download_paper(arxiv_url, save_dir_name)
Load ==
    /\ pc = "start"
    /\ pc' = "extract_formulas"
    /\ log' = Append(log, Ev("load", IF pdf_file THEN "file" ELSE "download", 0))
    /\ UNCHANGED <<otherVars, inputVars, cropVars, bodyVars, summaryVars, reportVars,
                   remoteVars, endVars, collab_ok, idx, sample_file, response>>

\* Mutant: formulas are extracted unless the mode is "formula_only".
DetectsFormulasAlways(mode) == mode # "formula_only"

\* if processing_mode == "all" or processing_mode == "text_formula":
DetectsFormulas(mode) == mode = "all" \/ mode = "text_formula"

\* formula_data = extract_formulas(pdf_path, save_dir_name)
ExtractFormulas ==
    /\ pc = "extract_formulas"
    /\ DetectsFormulas(processing_mode)
    /\ LET data == Crops(pages, Len(pages), {"Equation"}, "MFD")
       IN /\ formula_data' = data
          /\ workspace' = Written(workspace, data)
    /\ log' = log \o <<Ev("rasterize", "MFD", 0), Ev("detect_formula", "MFD", 0)>>
    /\ pc' = "extract_figures"
    /\ UNCHANGED <<otherVars, inputVars, figures_and_tables_data, bodyVars, summaryVars,
                   reportVars, remoteVars, endVars, collab_ok, idx, sample_file,
                   response>>

\* else: formula_data = []
SkipFormulas ==
    /\ pc = "extract_formulas"
    /\ ~DetectsFormulas(processing_mode)
    /\ formula_data' = <<>>
    /\ pc' = "extract_figures"
    /\ UNCHANGED <<otherVars, inputVars, workspace, figures_and_tables_data, bodyVars,
                   summaryVars, reportVars, remoteVars, endVars, collab_ok, idx,
                   sample_file, response, log>>

\* figures_and_tables_data = extract_figures_and_tables(pdf_path, save_dir_name)
\* (unconditional: the crops accompany the summary in every mode)
ExtractFiguresAndTables ==
    /\ pc = "extract_figures"
    /\ LET data == Crops(pages, Len(pages), {"Table", "Figure"}, "PubLayNet")
       IN /\ figures_and_tables_data' = data
          /\ workspace' = Written(workspace, data)
    /\ log' = log \o <<Ev("rasterize", "PubLayNet", 0),
                       Ev("detect_figure", "PubLayNet", 0)>>
    /\ pc' = "body"
    /\ UNCHANGED <<otherVars, inputVars, formula_data, bodyVars, summaryVars, reportVars,
                   remoteVars, endVars, collab_ok, idx, sample_file, response>>

\* if 'body_text' == processing_body: pdf_text = extract_text(pdf_path)
ExtractText ==
    /\ pc = "body"
    /\ processing_body = "body_text"
    /\ pdf_text' = "TEXT"
    /\ log' = Append(log, Ev("extract_text", "", 0))
    /\ pc' = "summary"
    /\ UNCHANGED <<otherVars, inputVars, cropVars, images, summaryVars, reportVars,
                   remoteVars, endVars, collab_ok, idx, sample_file, response>>

\* elif 'body_image' == processing_body: images = pdf_to_base64(pdf_path)
PdfToBase64 ==
    /\ pc = "body"
    /\ processing_body = "body_image"
    /\ images' = "PAGES"
    /\ log' = log \o <<Ev("rasterize", "pages", 0), Ev("pdf_to_base64", "", 0)>>
    /\ pc' = "summary"
    /\ UNCHANGED <<otherVars, inputVars, cropVars, pdf_text, summaryVars, reportVars,
                   remoteVars, endVars, collab_ok, idx, sample_file, response>>

----------------------------------------------------------------------------
\* generate_paper_summary_ochiai_text_formula(pdf_text,
\*     figures_and_tables_data + formula_data, arxiv_url)

\* The `images` argument of the call.
SummaryImages == figures_and_tables_data \o formula_data

Handle(f) == [name |-> f.name, by |-> f.by]

\* get_text_before_word, count_tokens, pdf_text[:truncate_len], count_tokens;
\* sample_files = []; file_names = []
SummaryTextFormulaBegin ==
    /\ pc = "summary"
    /\ llm_client = "gemini" /\ processing_body = "body_text"
    /\ sample_files' = <<>>
    /\ file_names' = <<>>
    /\ sample_file' = NoFile
    /\ idx' = 1
    /\ pc' = "sum_upload"
    /\ UNCHANGED <<otherVars, inputVars, cropVars, bodyVars, request, paper_summary_ochiai,
                   reportVars, remoteVars, endVars, collab_ok, response, log>>

\* for image_data in images: sample_file = genai.upload_file(...)
\* (the loop body is the upload alone: each pass overwrites sample_file)
SummaryUpload ==
    /\ pc = "sum_upload"
    /\ idx <= Len(SummaryImages)
    /\ \E st \in {"PROCESSING", "ACTIVE"} :
         sample_file' = [bound |-> TRUE, name |-> nextHandle, by |-> "summary",
                         state |-> st]
    /\ live' = live \cup {[name |-> nextHandle, by |-> "summary"]}
    /\ uploaded' = uploaded \cup {[name |-> nextHandle, by |-> "summary"]}
    /\ nextHandle' = nextHandle + 1
    /\ idx' = idx + 1
    /\ log' = Append(log, Ev("upload", "summary", nextHandle))
    /\ UNCHANGED <<otherVars, inputVars, cropVars, bodyVars, summaryVars, reportVars,
                   endVars, collab_ok, response, pc>>

\* the for loop is exhausted
SummaryUploadsDone ==
    /\ pc = "sum_upload"
    /\ idx > Len(SummaryImages)
    /\ pc' = "sum_poll"
    /\ UNCHANGED <<otherVars, inputVars, cropVars, bodyVars, summaryVars, reportVars,
                   remoteVars, endVars, collab_ok, idx, sample_file, response, log>>

\* while sample_file.state.name == "PROCESSING": with images == [] the name
\* sample_file was never bound
SummaryPollUnbound ==
    /\ pc = "sum_poll"
    /\ ~sample_file.bound
    /\ error' = "UnboundLocalError"
    /\ pc' = "failed"
    /\ log' = Append(log, Ev("raise", pc, 0))
    /\ UNCHANGED <<otherVars, inputVars, cropVars, bodyVars, summaryVars, reportVars,
                   remoteVars, output, returned, collab_ok, idx, sample_file,
                   response>>

\* while sample_file.state.name == "PROCESSING": time.sleep(5)
\* (sample_file is not fetched again inside the loop)
SummaryPollSleep ==
    /\ pc = "sum_poll"
    /\ sample_file.bound
    /\ sample_file.state = "PROCESSING"
    /\ UNCHANGED vars

\* the while condition is false
SummaryPollDone ==
    /\ pc = "sum_poll"
    /\ sample_file.bound
    /\ sample_file.state # "PROCESSING"
    /\ pc' = "sum_get"
    /\ UNCHANGED <<otherVars, inputVars, cropVars, bodyVars, summaryVars, reportVars,
                   remoteVars, endVars, collab_ok, idx, sample_file, response, log>>

\* sample_files.append(genai.get_file(sample_file.name))
\* file_names.append(sample_file.name)
SummaryGetFile ==
    /\ pc = "sum_get"
    /\ sample_files' = Append(sample_files, Handle(sample_file))
    /\ file_names' = Append(file_names, sample_file.name)
    /\ pc' = "sum_generate"
    /\ UNCHANGED <<otherVars, inputVars, cropVars, bodyVars, request, paper_summary_ochiai,
                   reportVars, remoteVars, endVars, collab_ok, idx, sample_file,
                   response, log>>

\* The attachment parts of the request:
\* *[... for file, name in zip(sample_files, file_names)]
Zip(files, names) ==
    [k \in 1..(IF Len(files) < Len(names) THEN Len(files) ELSE Len(names)) |->
        files[k]]

\* What a generation call returns as response.text.
SummaryTexts == {"", "SUMMARY"}

\* response = ai_client.generate_content([...])
SummaryGenerate ==
    /\ pc = "sum_generate"
    /\ \E txt \in SummaryTexts :
         /\ response' = txt
         /\ collab_ok' = (collab_ok /\ txt # "")
    /\ request' = [issued |-> TRUE, strategy |-> "text_formula", text |-> TRUE,
                   attachments |-> Zip(sample_files, file_names)]
    /\ log' = Append(log, Ev("summary_request", "text_formula", 0))
    /\ pc' = "sum_delete"
    /\ UNCHANGED <<otherVars, inputVars, cropVars, bodyVars, sample_files, file_names,
                   paper_summary_ochiai, reportVars, remoteVars, endVars, idx,
                   sample_file>>

\* genai.delete_file(sample_file); return response.text
SummaryDelete ==
    /\ pc = "sum_delete"
    /\ live' = live \ {Handle(sample_file)}
    /\ paper_summary_ochiai' = response
    /\ log' = Append(log, Ev("delete", "summary", sample_file.name))
    /\ pc' = "explain"
    /\ UNCHANGED <<otherVars, inputVars, cropVars, bodyVars, sample_files, file_names,
                   request, reportVars, uploaded, nextHandle, endVars, collab_ok,
                   idx, sample_file, response>>

\* paper_summary_ochiai = generate_paper_summary_ochiai(images, arxiv_url)
SummaryImage ==
    /\ pc = "summary"
    /\ llm_client = "gemini" /\ processing_body = "body_image"
    /\ \E txt \in SummaryTexts :
         /\ paper_summary_ochiai' = txt
         /\ collab_ok' = (collab_ok /\ txt # "")
    /\ request' = [issued |-> TRUE, strategy |-> "image", text |-> FALSE,
                   attachments |-> <<>>]
    /\ log' = Append(log, Ev("summary_request", "image", 0))
    /\ pc' = "explain"
    /\ UNCHANGED <<otherVars, inputVars, cropVars, bodyVars, sample_files, file_names,
                   reportVars, remoteVars, endVars, idx, sample_file, response>>

\* paper_summary_ochiai = generate_paper_summary_ochiai_text_local(pdf_text, arxiv_url)
SummaryLocal ==
    /\ pc = "summary"
    /\ ~(llm_client = "gemini" /\ processing_body = "body_text")
    /\ ~(llm_client = "gemini" /\ processing_body = "body_image")
    /\ \E txt \in SummaryTexts :
         /\ paper_summary_ochiai' = txt
         /\ collab_ok' = (collab_ok /\ txt # "")
    /\ request' = [issued |-> TRUE, strategy |-> "local", text |-> TRUE,
                   attachments |-> <<>>]
    /\ log' = Append(log, Ev("summary_request", "local", 0))
    /\ pc' = "explain"
    /\ UNCHANGED <<otherVars, inputVars, cropVars, bodyVars, sample_files, file_names,
                   reportVars, remoteVars, endVars, idx, sample_file, response>>

----------------------------------------------------------------------------
\* paper_reader: the explanation stage, with generate_formula_explanation
\* and generate_image_explanation

Section(kind) ==
    [part |-> "section", kind |-> kind, n |-> -1, base64 |-> NoCrop]

\* f"## 数式画像{i}\n\n![](data:image/jpg;base64,{data['base64']})\n\n{explanation}\n\n"
\* f"## 画像{i}\n\n![](data:image/jpg;base64,{data['base64']})\n\n{explanation}\n\n"
Entry(kind, i, data) ==
    [part |-> "entry", kind |-> kind, n |-> i, base64 |-> data.base64]

Data(kind) == IF kind = "formula" THEN formula_data ELSE figures_and_tables_data

LoopPc(kind) == IF kind = "formula" THEN "formula_loop" ELSE "image_loop"

PollPc(kind) == IF kind = "formula" THEN "formula_poll" ELSE "image_poll"

DeletePc(kind) == IF kind = "formula" THEN "formula_delete" ELSE "image_delete"

\* if processing_mode == "text_only": explaination_text = ""
ExplainSkip ==
    /\ pc = "explain"
    /\ processing_mode = "text_only"
    /\ explaination_text' = <<>>
    /\ gallery_data' = <<>>
    /\ pc' = "write_summary"
    /\ UNCHANGED <<otherVars, inputVars, cropVars, bodyVars, summaryVars, remoteVars,
                   endVars, collab_ok, idx, sample_file, response, log>>

\* else: explaination_text = "# 数式の説明\n\n"; for i, data in enumerate(formula_data):
ExplainBegin ==
    /\ pc = "explain"
    /\ processing_mode # "text_only"
    /\ explaination_text' = <<Section("formula")>>
    /\ gallery_data' = <<>>
    /\ idx' = 1
    /\ pc' = "formula_loop"
    /\ UNCHANGED <<otherVars, inputVars, cropVars, bodyVars, summaryVars, remoteVars,
                   endVars, collab_ok, sample_file, response, log>>

\* generate_*_explanation(data["path"], pdf_text): pdf_text is not bound when
\* the body was read as page images
ExplainUnbound(kind) ==
    /\ pc = LoopPc(kind)
    /\ idx <= Len(Data(kind))
    /\ pdf_text = "UNBOUND"
    /\ error' = "UnboundLocalError"
    /\ pc' = "failed"
    /\ log' = Append(log, Ev("raise", pc, 0))
    /\ UNCHANGED <<otherVars, inputVars, cropVars, bodyVars, summaryVars, reportVars,
                   remoteVars, output, returned, collab_ok, idx, sample_file,
                   response>>

\* sample_file = genai.upload_file(path=image, display_name=...)
ExplainUpload(kind) ==
    /\ pc = LoopPc(kind)
    /\ idx <= Len(Data(kind))
    /\ pdf_text # "UNBOUND"
    /\ \E st \in {"PROCESSING", "ACTIVE"} :
         sample_file' = [bound |-> TRUE, name |-> nextHandle, by |-> kind,
                         state |-> st]
    /\ live' = live \cup {[name |-> nextHandle, by |-> kind]}
    /\ uploaded' = uploaded \cup {[name |-> nextHandle, by |-> kind]}
    /\ nextHandle' = nextHandle + 1
    /\ log' = Append(log, Ev("upload", kind, nextHandle))
    /\ pc' = PollPc(kind)
    /\ UNCHANGED <<otherVars, inputVars, cropVars, bodyVars, summaryVars, reportVars,
                   endVars, collab_ok, idx, response>>

\* Mutant: the poll loop keeps the file object it already has.
GetFileStale(f, st) == f

\* genai.get_file(sample_file.name): the file object with the state the
\* service reports now
GetFile(f, st) == [f EXCEPT !.state = st]

\* while sample_file.state.name == "PROCESSING":
\*     time.sleep(5); sample_file = genai.get_file(sample_file.name)
ExplainPoll(kind) ==
    /\ pc = PollPc(kind)
    /\ sample_file.state = "PROCESSING"
    /\ \E st \in {"PROCESSING", "ACTIVE"} :
         sample_file' = GetFile(sample_file, st)
    /\ UNCHANGED <<otherVars, inputVars, cropVars, bodyVars, summaryVars, reportVars,
                   remoteVars, endVars, collab_ok, idx, response, log, pc>>

\* response = ai_client.generate_content([..., sample_file, ...])
ExplainGenerate(kind) ==
    /\ pc = PollPc(kind)
    /\ sample_file.state # "PROCESSING"
    /\ response' = "EXPLANATION"
    /\ log' = Append(log, Ev("explain_request", kind, idx - 1))
    /\ pc' = DeletePc(kind)
    /\ UNCHANGED <<otherVars, inputVars, cropVars, bodyVars, summaryVars, reportVars,
                   remoteVars, endVars, collab_ok, idx, sample_file>>

\* genai.delete_file(sample_file); return response.text
\* gallery_data.append([data["path"], explanation]); explaination_text += ...
ExplainDelete(kind) ==
    /\ pc = DeletePc(kind)
    /\ live' = live \ {Handle(sample_file)}
    /\ gallery_data' = Append(gallery_data,
                              [path |-> Data(kind)[idx].path, caption |-> response])
    /\ explaination_text' = Append(explaination_text,
                                   Entry(kind, idx - 1, Data(kind)[idx]))
    /\ log' = Append(log, Ev("delete", kind, sample_file.name))
    /\ idx' = idx + 1
    /\ pc' = LoopPc(kind)
    /\ UNCHANGED <<otherVars, inputVars, cropVars, bodyVars, summaryVars, uploaded,
                   nextHandle, endVars, collab_ok, sample_file, response>>

\* if processing_mode != "formula_only":
ExplainsFigures(mode) == mode # "formula_only"

\* explaination_text += "# 図表の説明\n\n"; for i, data in enumerate(figures_and_tables_data):
FiguresBegin ==
    /\ pc = "formula_loop"
    /\ idx > Len(formula_data)
    /\ ExplainsFigures(processing_mode)
    /\ explaination_text' = Append(explaination_text, Section("image"))
    /\ idx' = 1
    /\ pc' = "image_loop"
    /\ UNCHANGED <<otherVars, inputVars, cropVars, bodyVars, summaryVars, gallery_data,
                   remoteVars, endVars, collab_ok, sample_file, response, log>>

\* processing_mode == "formula_only": the figure/table loop is not entered
FiguresSkip ==
    /\ pc = "formula_loop"
    /\ idx > Len(formula_data)
    /\ ~ExplainsFigures(processing_mode)
    /\ pc' = "write_summary"
    /\ UNCHANGED <<otherVars, inputVars, cropVars, bodyVars, summaryVars, reportVars,
                   remoteVars, endVars, collab_ok, idx, sample_file, response, log>>

\* the figure/table loop is exhausted
FiguresEnd ==
    /\ pc = "image_loop"
    /\ idx > Len(figures_and_tables_data)
    /\ pc' = "write_summary"
    /\ UNCHANGED <<otherVars, inputVars, cropVars, bodyVars, summaryVars, reportVars,
                   remoteVars, endVars, collab_ok, idx, sample_file, response, log>>

----------------------------------------------------------------------------
\* paper_reader: output and return

\* with open(f'output/summary_{pdf_name}.md', 'w') as f: f.write(paper_summary_ochiai)
WriteSummary ==
    /\ pc = "write_summary"
    /\ output' = output \cup {"summary"}
    /\ log' = Append(log, Ev("write", "summary", 0))
    /\ pc' = "write_explaination"
    /\ UNCHANGED <<otherVars, inputVars, cropVars, bodyVars, summaryVars, reportVars,
                   remoteVars, returned, error, collab_ok, idx, sample_file,
                   response>>

\* if explaination_text:
WritesExplaination(text) == text # <<>>

\* with open(f'output/explaination_{pdf_name}.md', 'w') as f: f.write(explaination_text)
WriteExplaination ==
    /\ pc = "write_explaination"
    /\ WritesExplaination(explaination_text)
    /\ output' = output \cup {"explaination"}
    /\ log' = Append(log, Ev("write", "explaination", 0))
    /\ pc' = "return"
    /\ UNCHANGED <<otherVars, inputVars, cropVars, bodyVars, summaryVars, reportVars,
                   remoteVars, returned, error, collab_ok, idx, sample_file,
                   response>>

\* explaination_text is empty: no second file
SkipExplaination ==
    /\ pc = "write_explaination"
    /\ ~WritesExplaination(explaination_text)
    /\ pc' = "return"
    /\ UNCHANGED <<otherVars, inputVars, cropVars, bodyVars, summaryVars, reportVars,
                   remoteVars, endVars, collab_ok, idx, sample_file, response, log>>

\* return pdf_file, paper_summary_ochiai, explaination_text, gallery_data,
\*        pdf_text[:truncate_len]
Return ==
    /\ pc = "return"
    /\ pdf_text # "UNBOUND"
    /\ returned' = TRUE
    /\ pc' = "finished"
    /\ UNCHANGED <<otherVars, inputVars, cropVars, bodyVars, summaryVars, reportVars,
                   remoteVars, output, error, collab_ok, idx, sample_file,
                   response, log>>

\* pdf_text[:truncate_len] with pdf_text not bound (body read as page images)
ReturnUnbound ==
    /\ pc = "return"
    /\ pdf_text = "UNBOUND"
    /\ error' = "UnboundLocalError"
    /\ pc' = "failed"
    /\ log' = Append(log, Ev("raise", pc, 0))
    /\ UNCHANGED <<otherVars, inputVars, cropVars, bodyVars, summaryVars, reportVars,
                   remoteVars, output, returned, collab_ok, idx, sample_file,
                   response>>

----------------------------------------------------------------------------
\* A collaborator call is pending at the run's position.
Calling ==
    \/ pc = "start" /\ ~pdf_file
    \/ pc = "extract_formulas" /\ DetectsFormulas(processing_mode)
    \/ pc \in {"extract_figures", "body", "summary"}
    \/ pc = "sum_upload" /\ idx <= Len(SummaryImages)
    \/ pc \in {"sum_get", "sum_generate", "sum_delete"}
    \/ \E kind \in {"formula", "image"} :
         \/ pc = LoopPc(kind) /\ idx <= Len(Data(kind)) /\ pdf_text # "UNBOUND"
         \/ pc = PollPc(kind)
         \/ pc = DeletePc(kind)
    \/ pc = "write_summary"
    \/ pc = "write_explaination" /\ WritesExplaination(explaination_text)

\* Mutant: a failed summary call is caught and the run goes on.
PropagatesButSummary(p) == IF p = "summary" THEN "explain" ELSE "failed"

\* Where the run is after an exception raised at position p: no try/except
\* in paper_reader or in the functions it calls, so the call is left.
Propagates(p) == "failed"

\* The pending call raises; nothing in app.py catches it.
Raises ==
    /\ Calling
    /\ error' = "CollaboratorError"
    /\ collab_ok' = FALSE
    /\ pc' = Propagates(pc)
    /\ log' = Append(log, Ev("raise", pc, 0))
    /\ UNCHANGED <<otherVars, inputVars, cropVars, bodyVars, summaryVars, reportVars,
                   remoteVars, output, returned, idx, sample_file, response>>

\* One step of the program itself.
Step ==
    \/ Load
    \/ ExtractFormulas
    \/ SkipFormulas
    \/ ExtractFiguresAndTables
    \/ ExtractText
    \/ PdfToBase64
    \/ SummaryTextFormulaBegin
    \/ SummaryUpload
    \/ SummaryUploadsDone
    \/ SummaryPollUnbound
    \/ SummaryPollSleep
    \/ SummaryPollDone
    \/ SummaryGetFile
    \/ SummaryGenerate
    \/ SummaryDelete
    \/ SummaryImage
    \/ SummaryLocal
    \/ ExplainSkip
    \/ ExplainBegin
    \/ ExplainUnbound("formula")
    \/ ExplainUpload("formula")
    \/ ExplainPoll("formula")
    \/ ExplainGenerate("formula")
    \/ ExplainDelete("formula")
    \/ FiguresBegin
    \/ FiguresSkip
    \/ ExplainUnbound("image")
    \/ ExplainUpload("image")
    \/ ExplainPoll("image")
    \/ ExplainGenerate("image")
    \/ ExplainDelete("image")
    \/ FiguresEnd
    \/ WriteSummary
    \/ WriteExplaination
    \/ SkipExplaination
    \/ Return
    \/ ReturnUnbound

Next == Step \/ Raises

Spec == Init /\ [][Next]_vars

\* The thread that runs paper_reader keeps running, and a poll that can find
\* the file ready eventually does: a step of the program that changes the
\* state is eventually taken whenever one stays possible.
FairSpec == Init /\ [][Next]_vars /\ WF_vars(Step)

Ended == pc \in {"finished", "failed"}

----------------------------------------------------------------------------
\* Properties

\* The explanation stage is over and the run goes on to its output.
Explained == pc \in {"write_summary", "write_explaination", "return", "finished"}

\* Positions of the explanation entries of one kind in the report.
Entries(kind) ==
    {k \in 1..Len(explaination_text) :
        explaination_text[k].part = "entry" /\ explaination_text[k].kind = kind}

\* Number of explanation requests issued for artifact i (0-based) of a kind.
Requests(kind, i) ==
    Cardinality({t \in 1..Len(log) :
        log[t] = Ev("explain_request", kind, i)})

\* What the two layout models find in the document.
DetectedFormulas == Crops(pages, Len(pages), {"Equation"}, "MFD")

DetectedFigures == Crops(pages, Len(pages), {"Table", "Figure"}, "PubLayNet")

\* C1: in every run the stages come in the order Loaded, Rasterized,
\* (RegionsDetected), TextExtracted, Summarized, (Explained), Finished:
\* region detection precedes text extraction, text extraction precedes the
\* single summary request, the summary request precedes every explanation
\* request, and the output files are written only after all of these.
C1_StageOrder ==
    /\ Logged("extract_text") =>
         /\ Last("detect_formula") < First("extract_text")
         /\ Last("detect_figure") < First("extract_text")
    /\ Count("summary_request") <= 1
    /\ Logged("summary_request") =>
         /\ Logged("extract_text")
         /\ Last("extract_text") < First("summary_request")
    /\ Logged("explain_request") =>
         /\ Logged("summary_request")
         /\ Last("summary_request") < First("explain_request")
    /\ Logged("write") =>
         /\ Logged("extract_text")
         /\ Logged("summary_request")
         /\ Last("detect_formula") < First("write")
         /\ Last("detect_figure") < First("write")
         /\ Last("extract_text") < First("write")
         /\ Last("summary_request") < First("write")
         /\ Last("explain_request") < First("write")

\* C2 as stated: in text-only mode the run detects no region, neither formula
\* nor figure/table, and issues no per-region explanation request.
C2_TextOnlyDetectsNothing ==
    processing_mode = "text_only" =>
        /\ ~Logged("detect_formula")
        /\ ~Logged("detect_figure")
        /\ ~Logged("explain_request")

\* C2 as amended: in text-only mode the run detects no formula and issues no
\* per-region explanation request (no crop is uploaded for one either), while
\* figure/table detection still runs before the body is read.
C2_TextOnlySkipsFormulasAndExplanations ==
    processing_mode = "text_only" =>
        /\ ~Logged("detect_formula")
        /\ formula_data = <<>>
        /\ ~Logged("explain_request")
        /\ \A h \in uploaded : h.by = "summary"
        /\ Explained => explaination_text = <<>> /\ gallery_data = <<>>
        /\ (Logged("extract_text") \/ Logged("pdf_to_base64")) =>
               Logged("detect_figure")

\* C2 witness: a text-only run has finished, having cropped a figure or table.
C2_TextOnlyFinished ==
    /\ processing_mode = "text_only"
    /\ pc = "finished"
    /\ Logged("detect_figure")
    /\ figures_and_tables_data # <<>>

\* C3: every attachment an explanation uploaded is released before the
\* explanation ends, whether the generation request succeeds or fails.
C3_ExplanationAttachmentReleased ==
    pc \notin {"formula_poll", "formula_delete", "image_poll", "image_delete"} =>
        \A h \in live : h.by \notin {"formula", "image"}

\* C4: the text+remote summary request carries one attachment for every
\* RegionArtifact passed in.
C4_OneAttachmentPerArtifact ==
    (request.issued /\ request.strategy = "text_formula") =>
        Len(request.attachments) = Len(SummaryImages)

\* C5: once the text+remote summary stage has ended, by return or by
\* exception, no handle it uploaded is left unreleased.
C5_SummaryHandlesReleased ==
    pc \notin {"sum_upload", "sum_poll", "sum_get", "sum_generate", "sum_delete"} =>
        \A h \in live : h.by # "summary"

\* The artifacts in scope for the processing mode: all regions, formulas
\* (with text), or none.
InScope(kind) ==
    IF kind = "formula"
    THEN IF processing_mode = "text_only" THEN <<>> ELSE formula_data
    ELSE IF processing_mode = "all" THEN figures_and_tables_data ELSE <<>>

\* C6: a completed explanation stage over the N artifacts in scope leaves
\* exactly N entries, one per artifact, and no artifact is ever the subject of
\* more than one explanation request.
C6_OneEntryPerArtifactInScope ==
    /\ \A kind \in {"formula", "image"} :
         \A i \in 0..(MaxBlocks - 1) : Requests(kind, i) <= 1
    /\ Explained =>
         \A kind \in {"formula", "image"} :
            /\ Cardinality(Entries(kind)) = Len(InScope(kind))
            /\ \A i \in 1..Len(InScope(kind)) :
                 Cardinality({k \in Entries(kind) :
                     /\ explaination_text[k].n = i - 1
                     /\ explaination_text[k].base64 = InScope(kind)[i].base64}) = 1

\* C7: in mode "formula_only" with k detected formula regions the report holds
\* exactly k formula entries, headed with the numbers 0..k-1, and no
\* figure/table entry.
C7_FormulaOnlyReport ==
    (processing_mode = "formula_only" /\ Explained) =>
        /\ Cardinality(Entries("formula")) = Len(DetectedFormulas)
        /\ {explaination_text[k].n : k \in Entries("formula")}
              = 0..(Len(DetectedFormulas) - 1)
        /\ Entries("image") = {}

\* C8: in mode "text_formula" no figure/table explanation request is issued
\* and the report holds no figure/table entry.
C8_TextFormulaExplainsFormulasOnly ==
    processing_mode = "text_formula" =>
        /\ \A t \in 1..Len(log) :
             ~(log[t].ev = "explain_request" /\ log[t].kind = "image")
        /\ \A h \in uploaded : h.by # "image"
        /\ Entries("image") = {}

\* C9: a text-only run on a document with no figure, table or formula, in
\* which every collaborator succeeds, does not fail, and finishes with an
\* empty explanation report and a non-empty summary, whatever the body mode.
C9_EmptyDocumentTextOnly ==
    (/\ processing_mode = "text_only"
     /\ DetectedFormulas = <<>>
     /\ DetectedFigures = <<>>
     /\ collab_ok) =>
        /\ pc # "failed"
        /\ pc = "finished" =>
             /\ explaination_text = <<>>
             /\ paper_summary_ochiai = "SUMMARY"

\* The processing modes the form offers.
FormModes == {"all", "text_formula", "text_only"}

\* C10: the explanation file is written only when the run produced at least
\* one explanation, in every processing mode the form offers.
C10_ExplanationFileOnlyWithExplanations ==
    (processing_mode \in FormModes /\ "explaination" \in output) =>
        Entries("formula") \cup Entries("image") # {}


\* The positions of the run before its output: the stages that load, crop,
\* read, summarise and explain.
StagePcs ==
    {"start", "extract_formulas", "extract_figures", "body", "summary",
     "sum_upload", "sum_poll", "sum_get", "sum_generate", "sum_delete",
     "explain", "formula_loop", "formula_poll", "formula_delete",
     "image_loop", "image_poll", "image_delete"}

\* C11: a failure in any stage before the output aborts the run there: it is
\* the last thing the run does, no stage is run a second time, and neither
\* output file is written.
C11_FailureAborts ==
    /\ Count("raise") <= 1
    /\ \A e \in {"detect_formula", "detect_figure", "extract_text",
                 "pdf_to_base64", "summary_request"} : Count(e) <= 1
    /\ \A kind \in {"formula", "image"} :
         \A i \in 0..(MaxBlocks - 1) : Requests(kind, i) <= 1
    /\ Logged("raise") =>
         /\ pc = "failed"
         /\ log[Len(log)].ev = "raise"
         /\ log[Len(log)].kind \in StagePcs => output = {}

\* C11 witness: a collaborator has failed during a formula explanation, after
\* the summary was generated, and nothing was written.
C11_FailedInExplanation ==
    /\ pc = "failed"
    /\ error = "CollaboratorError"
    /\ log[Len(log)] = Ev("raise", "formula_poll", 0)
    /\ Logged("summary_request")
    /\ output = {}

\* C12: a summary call that returns empty content makes the summary stage
\* fail: the run never holds an empty summary, and no summary file with empty
\* content is written.
C12_EmptySummaryFails ==
    "summary" \in output => paper_summary_ochiai # ""

\* The strategy the caller's body mode selects.
StrategyFor(body) ==
    IF body = "body_text-gemini" THEN "text_formula"
    ELSE IF body = "body_image-gemini" THEN "image"
    ELSE "local"

\* C18: a run issues at most one summary request, exactly one once the summary
\* stage is over, through the strategy its body mode selects: text+remote a
\* request with the text and attachment parts, image+remote the page images
\* without text, text+local one chat request with no upload.
C18_OneSummaryRequestByStrategy ==
    /\ Count("summary_request") <= 1
    /\ request.issued <=> Count("summary_request") = 1
    /\ (paper_summary_ochiai # "UNBOUND" \/ pc = "finished") =>
          Count("summary_request") = 1
    /\ request.issued =>
         /\ request.strategy = StrategyFor(processing_mode_body)
         /\ \A t \in 1..Len(log) : log[t].ev = "summary_request" =>
                log[t].kind = StrategyFor(processing_mode_body)
         /\ request.strategy = "text_formula" =>
                request.text /\ pdf_text = "TEXT" /\ Len(request.attachments) >= 1
         /\ request.strategy = "image" =>
                ~request.text /\ images = "PAGES" /\ request.attachments = <<>>
         /\ request.strategy = "local" =>
                request.text /\ pdf_text = "TEXT" /\ request.attachments = <<>>
    /\ StrategyFor(processing_mode_body) # "text_formula" =>
          \A h \in uploaded : h.by # "summary"

\* C18 witness: a run has finished after a text+remote summary request.
C18_FinishedTextRemote ==
    /\ pc = "finished"
    /\ request.issued
    /\ request.strategy = "text_formula"
    /\ Count("summary_request") = 1

\* C19: a crop is never overwritten after its artifact was made: the file at
\* every artifact's path holds that artifact's own crop, the one its base64
\* copy encodes.
C19_CropsReadOnly ==
    \A data \in {formula_data, figures_and_tables_data} :
        \A k \in 1..Len(data) : workspace[data[k].path] = data[k].base64

\* C20 (the image-remote case): with the page-image body mode and any
\* processing mode of the form, a run in which every collaborator succeeds
\* does not fail, and ends having returned its five results.
C20_ImageBodyModeFinishes ==
    (/\ processing_mode \in FormModes
     /\ processing_mode_body = "body_image-gemini"
     /\ collab_ok) =>
        /\ pc # "failed"
        /\ Ended => returned


PollPcs == {"formula_poll", "image_poll"}

\* C16: in an explanation the generation request is issued only once the
\* file is reported ready, the poll loop is not left while the file object
\* says PROCESSING, and a run in the poll loop eventually has issued the
\* request and released the file, unless a collaborator fails.
C16_ExplanationPollProtocol ==
    /\ [](pc \in {"formula_delete", "image_delete"} => sample_file.state = "ACTIVE")
    /\ [][(pc \in PollPcs /\ sample_file.state = "PROCESSING")
            => pc' \in PollPcs \cup {"failed"}]_vars
    /\ (pc \in PollPcs) ~>
          (\/ pc = "failed"
           \/ /\ pc \in {"formula_loop", "image_loop"}
              /\ Handle(sample_file) \notin live)

\* C16 witness: a formula explanation is over, its request issued and its
\* file released.
C16_FormulaExplainedAndReleased ==
    /\ pc = "formula_loop"
    /\ idx = 2
    /\ Requests("formula", 0) = 1
    /\ sample_file.by = "formula"
    /\ sample_file.state = "ACTIVE"
    /\ Handle(sample_file) \in uploaded \ live

\* C17: the text+remote summary stage, once it waits for its attachments,
\* eventually issues its generation request (or fails).
C17_SummaryPollEnds ==
    (pc = "sum_poll") ~> (Logged("summary_request") \/ pc = "failed")


----------------------------------------------------------------------------
\* The Content Budgeter: get_text_before_word(pdf_text, 'References') followed
\* by pdf_text[:limit], on texts given as runs of characters.

\* Most chunks a text is made of.
MaxChunks == 3

\* len('References')
MarkerLen == 10

\* truncate_len = 30000
truncate_len == 30000

\* pdf_text[:10000]
local_truncate_len == 10000

\* A run of n characters none of which occurs in the stop marker.
Plain(n) == [m |-> FALSE, len |-> n]

\* The first n characters of the stop marker: all of it when n = MarkerLen.
Marker(n) == [m |-> TRUE, len |-> n]

IsMarker(c) == c.m /\ c.len = MarkerLen

\* The chunks texts are drawn from: the stop marker, a word that starts like
\* it, and runs around the two limits.
Chunks == {Marker(MarkerLen), Marker(5), Plain(9995), Plain(20000), Plain(30001)}

\* Texts in which no two runs of plain characters are adjacent, so that a
\* string has one representation.
Texts ==
    {t \in SeqsUpTo(Chunks, MaxChunks) :
        \A k \in 1..(Len(t) - 1) : t[k].m \/ t[k + 1].m}

\* len(text)
RECURSIVE TLen(_)
TLen(t) == IF t = <<>> THEN 0 ELSE t[1].len + TLen(Tail(t))

\* text[:n]
RECURSIVE Take(_, _)
Take(t, n) ==
    IF t = <<>> \/ n <= 0 THEN <<>>
    ELSE IF t[1].len <= n THEN <<t[1]>> \o Take(Tail(t), n - t[1].len)
    ELSE <<[t[1] EXCEPT !.len = n]>>

HasMarker(t) == \E k \in 1..Len(t) : IsMarker(t[k])

\* llm_utils.get_text_before_word(pdf_text, 'References'): the text up to the
\* first occurrence of the word, all of it when the word does not occur.
get_text_before_word(t) ==
    IF HasMarker(t)
    THEN SubSeq(t, 1, (CHOOSE k \in 1..Len(t) :
                          IsMarker(t[k]) /\ \A u \in 1..(k - 1) : ~IsMarker(t[u])) - 1)
    ELSE t

\* Mutant: the slice starts at 1.
TruncateFromOne(t, n) ==
    LET cut == Take(t, n)
    IN IF cut = <<>> THEN <<>>
       ELSE IF cut[1].len = 1 THEN Tail(cut)
       ELSE <<Plain(cut[1].len - 1)>> \o Tail(cut)

\* pdf_text = pdf_text[:truncate_len] / pdf_text = pdf_text[:10000]
Truncate(t, n) == Take(t, n)

\* Mutant: the local strategy uses the global limit.
LimitGlobal(strategy) == truncate_len

\* The character limit of a summary strategy.
Limit(strategy) == IF strategy = "local" THEN local_truncate_len ELSE truncate_len

\* The document text a summary function places in its request.
Budget(t, strategy) == Truncate(get_text_before_word(t), Limit(strategy))

\* All the variables of the run of paper_reader.
runVars == <<pdf_file, processing_mode, processing_mode_body, pages, pc, error,
             collab_ok, workspace, formula_data, figures_and_tables_data,
             pdf_text, images, paper_summary_ochiai, explaination_text,
             gallery_data, idx, sample_file, sample_files, file_names, response,
             live, uploaded, nextHandle, request, output, returned, log>>

BudgetInit ==
    /\ RunIdle
    /\ bud \in [pc : {"in"}, text : Texts, strategy : {"remote", "local"},
                out1 : {<<>>}, out2 : {<<>>}]
    /\ runs = RunsIdle
    /\ host = HostIdle

\* A summary function budgets the extracted text.
BudgetText ==
    /\ bud.pc = "in"
    /\ bud' = [bud EXCEPT !.pc = "once", !.out1 = Budget(bud.text, bud.strategy)]
    /\ UNCHANGED <<runVars, runs, host>>

\* The budgeted text is budgeted again.
BudgetAgain ==
    /\ bud.pc = "once"
    /\ bud' = [bud EXCEPT !.pc = "twice", !.out2 = Budget(bud.out1, bud.strategy)]
    /\ UNCHANGED <<runVars, runs, host>>

BudgetNext == BudgetText \/ BudgetAgain

BudgetSpec == BudgetInit /\ [][BudgetNext]_vars

\* Number of characters before the first occurrence of the stop marker.
FirstMarkerPos(t) ==
    LET k == CHOOSE j \in 1..Len(t) :
                 IsMarker(t[j]) /\ \A u \in 1..(j - 1) : ~IsMarker(t[u])
    IN TLen(SubSeq(t, 1, k - 1))

\* C13: the text placed in a summary request is a prefix of the input, ends
\* before the first occurrence of "References" when there is one, and is at
\* most 30,000 characters long for the remote strategy and 10,000 for the
\* local one.
C13_BudgetedTextWithinLimit ==
    bud.pc \in {"once", "twice"} =>
        /\ Take(bud.text, TLen(bud.out1)) = bud.out1
        /\ TLen(bud.out1) <= TLen(bud.text)
        /\ ~HasMarker(bud.out1)
        /\ HasMarker(bud.text) => TLen(bud.out1) <= FirstMarkerPos(bud.text)
        /\ bud.strategy = "remote" => TLen(bud.out1) <= 30000
        /\ bud.strategy = "local" => TLen(bud.out1) <= 10000

\* C13 witness: a text with more than 10,000 characters before its stop
\* marker has been budgeted for the local strategy.
C13_LocalTextCut ==
    /\ bud.pc = "once"
    /\ bud.strategy = "local"
    /\ HasMarker(bud.text)
    /\ FirstMarkerPos(bud.text) > 10000
    /\ TLen(bud.out1) = 10000

\* C14: budgeting a text the budgeter produced returns it unchanged.
C14_BudgetIdempotent ==
    bud.pc = "twice" => bud.out2 = bud.out1

\* C14 witness: a text that the budgeter cut, at the marker and at the limit,
\* has been budgeted twice.
C14_CutTextBudgetedTwice ==
    /\ bud.pc = "twice"
    /\ HasMarker(bud.text)
    /\ TLen(bud.out1) = Limit(bud.strategy)
    /\ TLen(bud.out1) < FirstMarkerPos(bud.text)


----------------------------------------------------------------------------
\* Two calls of paper_reader running at once on one host: what each writes
\* into the file system and which files of the remote service each touches.

RunIds == {1, 2}

\* pdf_name: the name derived from the uploaded file or the paper's title.
PdfNames == {"paperA", "paperB"}

\* Mutant: the directory is named by the second the call started in.
NewDirByDate(h) == 0

\* save_dir_name = os.path.join(tempfile.mkdtemp(), formatted_date):
\* mkdtemp makes a directory that did not exist.
NewDir(h) == h.nextDir

ConcInit ==
    /\ RunIdle
    /\ bud = BudIdle
    /\ runs \in [RunIds -> [pc : {"start"}, pdf_name : PdfNames,
                            ncrops : 0..MaxBlocks, dir : {-1}, todo : {0},
                            sample_file : {-1}]]
    /\ host = HostIdle

\* formatted_date = ...; save_dir_name = os.path.join(tempfile.mkdtemp(), formatted_date)
ConcMkdtemp(r) ==
    /\ runs[r].pc = "start"
    /\ runs' = [runs EXCEPT ![r].pc = "extract", ![r].dir = NewDir(host)]
    /\ host' = [host EXCEPT !.nextDir = host.nextDir + 1]
    /\ UNCHANGED <<runVars, bud>>

\* extract_formulas / extract_figures_and_tables: cv2.imwrite of
\* save_dir/page_{i}_block_{j}.jpg for every crop
ConcExtract(r) ==
    /\ runs[r].pc = "extract"
    /\ runs' = [runs EXCEPT ![r].pc = "explain", ![r].todo = runs[r].ncrops]
    /\ host' = [host EXCEPT !.crops = host.crops \cup
                   {[run |-> r, path |-> <<runs[r].dir, j>>] :
                        j \in 0..(runs[r].ncrops - 1)}]
    /\ UNCHANGED <<runVars, bud>>

\* sample_file = genai.upload_file(path=image, ...), then used in the request
ConcUpload(r) ==
    /\ runs[r].pc = "explain"
    /\ runs[r].todo > 0
    /\ runs' = [runs EXCEPT ![r].pc = "uploaded", ![r].sample_file = host.nextName]
    /\ host' = [host EXCEPT !.nextName = host.nextName + 1,
                            !.live = host.live \cup {host.nextName},
                            !.attached = host.attached \cup
                                {[run |-> r, name |-> host.nextName]}]
    /\ UNCHANGED <<runVars, bud>>

\* genai.delete_file(sample_file)
ConcDelete(r) ==
    /\ runs[r].pc = "uploaded"
    /\ runs' = [runs EXCEPT ![r].pc = "explain", ![r].todo = runs[r].todo - 1]
    /\ host' = [host EXCEPT !.live = host.live \ {runs[r].sample_file},
                            !.released = host.released \cup
                                {[run |-> r, name |-> runs[r].sample_file]}]
    /\ UNCHANGED <<runVars, bud>>

\* open(f'output/summary_{pdf_name}.md', 'w'), open(f'output/explaination_{pdf_name}.md', 'w')
ConcWrite(r) ==
    /\ runs[r].pc = "explain"
    /\ runs[r].todo = 0
    /\ runs' = [runs EXCEPT ![r].pc = "done"]
    /\ host' = [host EXCEPT !.documents = host.documents \cup
                   {[run |-> r, path |-> <<"summary", runs[r].pdf_name>>],
                    [run |-> r, path |-> <<"explaination", runs[r].pdf_name>>]}]
    /\ UNCHANGED <<runVars, bud>>

ConcNext ==
    \E r \in RunIds :
        \/ ConcMkdtemp(r)
        \/ ConcExtract(r)
        \/ ConcUpload(r)
        \/ ConcDelete(r)
        \/ ConcWrite(r)

ConcSpec == ConcInit /\ [][ConcNext]_vars

\* The paths of a kind written by run r / the files of the service run r
\* has attached to a request or released.
PathsOf(written, r) == {w.path : w \in {x \in written : x.run = r}}

HandlesOf(r) ==
    {a.name : a \in {x \in host.attached \cup host.released : x.run = r}}

\* C15 as stated: two concurrent runs write no common file path, crop or
\* output document, and touch no common attachment handle.
C15_RunsShareNothing ==
    \A r1, r2 \in RunIds : r1 # r2 =>
        /\ PathsOf(host.crops, r1) \cap PathsOf(host.crops, r2) = {}
        /\ PathsOf(host.documents, r1) \cap PathsOf(host.documents, r2) = {}
        /\ HandlesOf(r1) \cap HandlesOf(r2) = {}

\* C15 as amended: two concurrent runs write no common crop path and touch
\* no common attachment handle; they write a common output document path
\* only when their PDFs have the same derived name.
C15_RunsShareOnlySameNamedOutput ==
    \A r1, r2 \in RunIds : r1 # r2 =>
        /\ PathsOf(host.crops, r1) \cap PathsOf(host.crops, r2) = {}
        /\ HandlesOf(r1) \cap HandlesOf(r2) = {}
        /\ runs[r1].pdf_name # runs[r2].pdf_name =>
              PathsOf(host.documents, r1) \cap PathsOf(host.documents, r2) = {}

\* C15 witness: two runs on differently named PDFs are over, each having
\* written crops, uploaded and released files and written its documents.
C15_BothRunsDone ==
    /\ runs # RunsIdle
    /\ \A r \in RunIds :
         /\ runs[r].pc = "done"
         /\ PathsOf(host.crops, r) # {}
         /\ HandlesOf(r) # {}
         /\ PathsOf(host.documents, r) # {}
    /\ runs[1].pdf_name # runs[2].pdf_name

====
